---- MODULE Spec2Model ----
(***************************************************************************)
(* Toys Budget Dashboard (src/app.py): the run of the script from the      *)
(* sheet's values to the summary table and the KPIs.                       *)
(*                                                                         *)
(* Text is a sequence of one-character strings, so that strip, lower,      *)
(* replace and the numeric and date parsers act on characters.  Money is   *)
(* an integer number of cents (the inputs have at most two decimals).  A   *)
(* timestamp is a record [year, month, day, sec], sec the second of the    *)
(* day; NaT is the record of zeros.                                        *)
(***************************************************************************)
EXTENDS Integers, Sequences, FiniteSets, TLC

\* ------------------------------------------------------------------ bounds
\* The largest number of data rows of the sheet.
MaxRows == 2

\* ------------------------------------------------------------------ text
\* The printable ASCII characters in code order, from 32 (space) to 126 (the double
\* quote, the backslash and the backtick, which no cell of the model holds, are
\* spelled out).
ASCII ==
    << " ", "!", "dquote", "#", "$", "%", "&", "'", "(", ")", "*", "+", ",", "-", ".", "/",
       "0", "1", "2", "3", "4", "5", "6", "7", "8", "9", ":", ";", "<", "=", ">", "?",
       "@", "A", "B", "C", "D", "E", "F", "G", "H", "I", "J", "K", "L", "M", "N", "O",
       "P", "Q", "R", "S", "T", "U", "V", "W", "X", "Y", "Z", "[", "backslash", "]", "^", "_",
       "backtick", "a", "b", "c", "d", "e", "f", "g", "h", "i", "j", "k", "l", "m", "n", "o",
       "p", "q", "r", "s", "t", "u", "v", "w", "x", "y", "z", "{", "|", "}", "~" >>

\* ord() of the characters a cell may hold.
OrdTable ==
    [c \in { ASCII[i] : i \in 1..Len(ASCII) } \cup {"\t", "\n"} |->
        IF c = "\t" THEN 9
        ELSE IF c = "\n" THEN 10
        ELSE 31 + (CHOOSE i \in 1..Len(ASCII) : ASCII[i] = c)]

Ord(c) == OrdTable[c]

Chr(n) == ASCII[n - 31]

IsSpace(c) == c \in {" ", "\t", "\n"}

IsDigit(c) == c \in {"0", "1", "2", "3", "4", "5", "6", "7", "8", "9"}

\* str.lower() on one character.
LowerChar(c) == IF Ord(c) >= 65 /\ Ord(c) <= 90 THEN Chr(Ord(c) + 32) ELSE c

\* .str.lower()
Lower(s) == [i \in 1..Len(s) |-> LowerChar(s[i])]

RECURSIVE LStrip(_)
LStrip(s) == IF s # <<>> /\ IsSpace(Head(s)) THEN LStrip(Tail(s)) ELSE s

RECURSIVE RStrip(_)
RStrip(s) ==
    IF s # <<>> /\ IsSpace(s[Len(s)]) THEN RStrip(SubSeq(s, 1, Len(s) - 1)) ELSE s

\* .str.strip()
Strip(s) == RStrip(LStrip(s))

\* .str.replace(ch, "", regex=False)
RECURSIVE RemoveChar(_, _)
RemoveChar(s, ch) ==
    IF s = <<>> THEN <<>>
    ELSE IF Head(s) = ch THEN RemoveChar(Tail(s), ch)
    ELSE <<Head(s)>> \o RemoveChar(Tail(s), ch)

\* .str.replace(r"\s+", " ", regex=True): every run of whitespace becomes one space.
RECURSIVE CollapseWs(_)
CollapseWs(s) ==
    IF s = <<>> THEN <<>>
    ELSE IF IsSpace(Head(s)) THEN <<" ">> \o CollapseWs(LStrip(s))
    ELSE <<Head(s)>> \o CollapseWs(Tail(s))

\* The order of str values: by code point, a proper prefix first.
RECURSIVE StrLess(_, _)
StrLess(a, b) ==
    IF b = <<>> THEN FALSE
    ELSE IF a = <<>> THEN TRUE
    ELSE IF Head(a) # Head(b) THEN Ord(Head(a)) < Ord(Head(b))
    ELSE StrLess(Tail(a), Tail(b))

\* str.find(ch) + 1: the position of the first ch in s, 0 when there is none.
Find(s, ch) ==
    IF \E i \in 1..Len(s) : s[i] = ch
    THEN CHOOSE i \in 1..Len(s) : s[i] = ch /\ \A j \in 1..(i - 1) : s[j] # ch
    ELSE 0

\* str.split(ch)
RECURSIVE Split(_, _)
Split(s, ch) ==
    LET k == Find(s, ch)
    IN  IF k = 0 THEN <<s>>
        ELSE <<SubSeq(s, 1, k - 1)>> \o Split(SubSeq(s, k + 1, Len(s)), ch)

AllDigits(s) == s # <<>> /\ \A i \in 1..Len(s) : IsDigit(s[i])

\* The value of a string of digits.
RECURSIVE DigitsValue(_)
DigitsValue(s) ==
    IF s = <<>> THEN 0
    ELSE 10 * DigitsValue(SubSeq(s, 1, Len(s) - 1)) + (Ord(s[Len(s)]) - 48)

RECURSIVE Pow10(_)
Pow10(n) == IF n = 0 THEN 1 ELSE 10 * Pow10(n - 1)

\* ------------------------------------------------------------------ helpers
TRUE_VALUES ==
    { <<"t", "r", "u", "e">>, <<"y", "e", "s">>, <<"1">>, <<"y">>,
      <<"c", "h", "e", "c", "k", "e", "d">>, <<"x">> }

\* to_bool on one cell (a cell of the sheet is a str, so fillna changes nothing).
to_bool(cell) == Lower(Strip(cell)) \in TRUE_VALUES

\* pd.to_numeric(errors="coerce") on one cleaned cell, in cents: an optional sign,
\* digits, an optional point and digits; anything else is NaN.
NaN == [nan |-> TRUE, val |-> 0]

Num(v) == [nan |-> FALSE, val |-> v]

Unsigned(s) ==
    LET parts == Split(s, ".")
        whole == parts[1]
        frac  == IF Len(parts) = 2 THEN parts[2] ELSE <<>>
        okW   == whole = <<>> \/ AllDigits(whole)
        okF   == frac = <<>> \/ AllDigits(frac)
    IN  IF Len(parts) > 2 \/ ~okW \/ ~okF \/ (whole = <<>> /\ frac = <<>>) THEN NaN
        ELSE Num(100 * DigitsValue(whole) + (100 * DigitsValue(frac)) \div Pow10(Len(frac)))

ToNumeric(s) ==
    IF s = <<>> THEN NaN
    ELSE IF Head(s) = "-"
         THEN (IF Unsigned(Tail(s)).nan THEN NaN ELSE Num(0 - Unsigned(Tail(s)).val))
    ELSE IF Head(s) = "+" THEN Unsigned(Tail(s))
    ELSE Unsigned(s)

\* to_money on one cell: strip, drop "$" and ",", parse, NaN becomes 0.
to_money(cell) ==
    LET cleaned == RemoveChar(RemoveChar(Strip(cell), "$"), ",")
    IN  IF ToNumeric(cleaned).nan THEN 0 ELSE ToNumeric(cleaned).val

\* normalize_name on one cell.
normalize_name(cell) == Strip(CollapseWs(cell))

\* ------------------------------------------------------------------ dates
NaT == [year |-> 0, month |-> 0, day |-> 0, sec |-> 0]

IsLeap(y) == (y % 4 = 0 /\ y % 100 # 0) \/ y % 400 = 0

DaysInMonth(y, m) ==
    IF m = 2 THEN (IF IsLeap(y) THEN 29 ELSE 28)
    ELSE IF m \in {4, 6, 9, 11} THEN 30
    ELSE 31

\* The order of timestamps; every comparison with NaT is False.
TsLess(a, b) ==
    /\ a # NaT
    /\ b # NaT
    /\ \/ a.year < b.year
       \/ a.year = b.year /\ a.month < b.month
       \/ a.year = b.year /\ a.month = b.month /\ a.day < b.day
       \/ a.year = b.year /\ a.month = b.month /\ a.day = b.day /\ a.sec < b.sec

TsGeq(a, b) == a # NaT /\ b # NaT /\ ~TsLess(a, b)

\* Month arithmetic that keeps the day of the month whatever the month reached.
AddMonths_NoClamp(t, n) ==
    LET idx == 12 * t.year + (t.month - 1) + n
    IN  [year |-> idx \div 12, month |-> (idx % 12) + 1, day |-> t.day, sec |-> t.sec]

\* t + relativedelta(months=n), n possibly negative: the month moves, the year
\* carries, and the day is cut to the last day of the month reached.
AddMonths(t, n) ==
    LET idx == 12 * t.year + (t.month - 1) + n
        y   == idx \div 12
        m   == (idx % 12) + 1
        d   == IF t.day > DaysInMonth(y, m) THEN DaysInMonth(y, m) ELSE t.day
    IN  [year |-> y, month |-> m, day |-> d, sec |-> t.sec]

\* pd.to_datetime(errors="coerce") on one cell written "M/D/YYYY H:MM:SS" (the
\* form the sheet stamps rows with); a cell that is no such date is NaT.
to_datetime(cell) ==
    LET halves == Split(Strip(cell), " ")
        dmy    == Split(halves[1], "/")
        hms    == IF Len(halves) = 2 THEN Split(halves[2], ":") ELSE << <<"0">>, <<"0">>, <<"0">> >>
        okForm == /\ Len(halves) \in {1, 2}
                  /\ Len(dmy) = 3
                  /\ Len(hms) = 3
                  /\ \A i \in 1..3 : AllDigits(dmy[i]) /\ AllDigits(hms[i])
        mo     == DigitsValue(dmy[1])
        dy     == DigitsValue(dmy[2])
        yr     == DigitsValue(dmy[3])
        hh     == DigitsValue(hms[1])
        mi     == DigitsValue(hms[2])
        ss     == DigitsValue(hms[3])
    IN  IF ~okForm THEN NaT
        ELSE IF /\ yr >= 1
                /\ mo \in 1..12
                /\ dy >= 1
                /\ dy <= DaysInMonth(yr, mo)
                /\ hh < 24
                /\ mi < 60
                /\ ss < 60
             THEN [year |-> yr, month |-> mo, day |-> dy, sec |-> 3600 * hh + 60 * mi + ss]
             ELSE NaT

\* ------------------------------------------------------------------ settings
\* BUDGET, in cents.
BUDGET == 2500

\* ------------------------------------------------------------------ the sheet
H_Timestamp == <<"T", "i", "m", "e", "s", "t", "a", "m", "p">>
H_Clients   == <<"C", "l", "i", "e", "n", "t", "s">>
H_Purchased == <<"P", "u", "r", "c", "h", "a", "s", "e", "d">>
H_Inactive  == <<"I", "n", "a", "c", "t", "i", "v", "e">>
H_CleanCost == <<"C", "l", "e", "a", "n", " ", "C", "o", "s", "t">>

required_cols == <<H_Timestamp, H_Clients, H_Purchased, H_Inactive, H_CleanCost>>

\* The header rows of the sheets considered: all five columns (one header padded,
\* as load_data strips it), or some of them missing.
HeaderRows ==
    { <<H_Timestamp, <<" ">> \o H_Clients \o <<" ">>, H_Purchased, H_Inactive, H_CleanCost>>,
      <<H_Timestamp, H_Clients, H_Purchased, H_Inactive>>,
      <<H_Clients, H_Inactive, H_CleanCost>> }

\* The cells considered under each column.
TimestampCells ==
    { <<>>,
      <<"2", "/", "2", "7", "/", "2", "0", "2", "3", " ", "9", ":", "0", "0", ":", "0", "0">>,
      <<"2", "/", "2", "8", "/", "2", "0", "2", "3", " ", "1", "0", ":", "0", "0", ":", "0", "0">>,
      <<"8", "/", "3", "1", "/", "2", "0", "2", "3", " ", "1", "0", ":", "0", "0", ":", "0", "0">> }

ClientCells ==
    { <<"J", "\t", " ", "D">>, <<" ", "j", " ", "d", " ">>, <<"B">> }

PurchasedCells == { <<" ", "Y", "e", "s">>, <<"n", "o">> }

InactiveCells == { <<"X">>, <<>> }

CleanCostCells ==
    { <<"$", "2", "5", ".", "0", "0">>, <<"1", "0">>, <<" ", "2", "0", " ">>,
      <<"-", "5">>, <<"#", "V", "A", "L", "U", "E", "!">> }

CellsOf(header) ==
    LET h == Strip(header)
    IN  IF h = H_Timestamp THEN TimestampCells
        ELSE IF h = H_Clients THEN ClientCells
        ELSE IF h = H_Purchased THEN PurchasedCells
        ELSE IF h = H_Inactive THEN InactiveCells
        ELSE CleanCostCells

\* The rows a sheet with the given header row may hold: one cell per column.
RECURSIVE RowsOver(_)
RowsOver(headers) ==
    IF headers = <<>> THEN { <<>> }
    ELSE { <<c>> \o r : c \in CellsOf(Head(headers)), r \in RowsOver(Tail(headers)) }

\* ws.get_all_values(): nothing at all, or a header row and up to MaxRows rows.
IsSheet(v) ==
    \/ v = <<>>
    \/ \E h \in HeaderRows : \E n \in 0..MaxRows : \E rows \in [1..n -> RowsOver(h)] :
          v = <<h>> \o rows

\* The days the script may run on (pd.Timestamp.today().normalize(): midnight).
Todays ==
    { [year |-> 2023, month |-> 8, day |-> 28, sec |-> 0],
      [year |-> 2024, month |-> 2, day |-> 29, sec |-> 0],
      [year |-> 2024, month |-> 3, day |-> 1, sec |-> 0] }

\* ------------------------------------------------------------------ data frames
EmptyFrame == [columns |-> <<>>, rows |-> <<>>]

\* df.empty
IsEmpty(df) == df.columns = <<>> \/ df.rows = <<>>

HasColumn(df, c) == \E i \in 1..Len(df.columns) : df.columns[i] = c

\* The cell of a row under column c (the first column of that name).
Cell(df, row, c) == row[CHOOSE i \in 1..Len(df.columns) : df.columns[i] = c]

\* load_data(): the frame of the sheet's values, headers stripped.
load_data(values) ==
    IF Len(values) < 2 THEN EmptyFrame
    ELSE [columns |-> [i \in 1..Len(values[1]) |-> Strip(values[1][i])],
          rows    |-> Tail(values)]

RECURSIVE SumSeq(_)
SumSeq(s) == IF s = <<>> THEN 0 ELSE Head(s) + SumSeq(Tail(s))

Amounts(rows) == [i \in 1..Len(rows) |-> rows[i].Amount]

\* The required columns df lacks, in the order of required_cols.
Missing(df) == SelectSeq(required_cols, LAMBDA c : ~HasColumn(df, c))

\* prepare_data on one row: the columns it adds (Clients is overwritten).
PrepareRow(df, row) ==
    LET name == normalize_name(Cell(df, row, H_Clients))
    IN  [Clients        |-> name,
         Client_key     |-> Lower(name),
         Purchased_bool |-> to_bool(Cell(df, row, H_Purchased)),
         Inactive_bool  |-> to_bool(Cell(df, row, H_Inactive)),
         Timestamp_dt   |-> to_datetime(Cell(df, row, H_Timestamp)),
         Amount         |-> to_money(Cell(df, row, H_CleanCost))]

\* prepare_data(df_raw), when no required column is missing.
prepare_data(df) == [i \in 1..Len(df.rows) |-> PrepareRow(df, df.rows[i])]

\* ------------------------------------------------------------------ build_summary
\* The values of Action Status (the dash of the two long ones is written "-").
Eligible    == "Eligible"
Purchased   == "Purchased"
PlaceOrder  == "Place Order"
OverBudget  == "Over Budget - Pending"
NotEligible == "Not Eligible - Wait 6 Months"

IsActive(r) == r.Inactive_bool = FALSE

IsPurchase(r) == r.Purchased_bool = TRUE

IsPending(r) == r.Purchased_bool = FALSE

\* The frame with its inactive rows kept.
ActiveRows_Unfiltered(df) == df

\* df_all[df_all["Inactive_bool"] == False]
ActiveRows(df) == SelectSeq(df, IsActive)

\* Series.max() of Timestamp_dt: the latest one that is not NaT, NaT when all are.
RECURSIVE MaxTs(_)
MaxTs(rows) ==
    IF rows = <<>> THEN NaT
    ELSE LET h == Head(rows).Timestamp_dt
             m == MaxTs(Tail(rows))
         IN  IF h = NaT THEN m
             ELSE IF m = NaT THEN h
             ELSE IF TsLess(m, h) THEN h ELSE m

\* max(a, b) of Python on two numbers.
Max(a, b) == IF b > a THEN b ELSE a

\* The action status logic with a pending total of zero counted as pending.
ActionStatus_ZeroPending(pending_total, remaining) ==
    IF pending_total >= 0
    THEN (IF pending_total > remaining THEN OverBudget ELSE PlaceOrder)
    ELSE IF remaining = BUDGET THEN Eligible
    ELSE IF remaining = 0 THEN NotEligible
    ELSE Purchased

\* The action status logic without the branch of a used-up allowance.
ActionStatus_NoWait(pending_total, remaining) ==
    IF pending_total > 0
    THEN (IF pending_total > remaining THEN OverBudget ELSE PlaceOrder)
    ELSE IF remaining = BUDGET THEN Eligible
    ELSE Purchased

\* The action status logic with a pending total equal to the balance over budget.
ActionStatus_OverAtLimit(pending_total, remaining) ==
    IF pending_total > 0
    THEN (IF pending_total >= remaining THEN OverBudget ELSE PlaceOrder)
    ELSE IF remaining = BUDGET THEN Eligible
    ELSE IF remaining = 0 THEN NotEligible
    ELSE Purchased

\* The action status logic.
ActionStatus(pending_total, remaining) ==
    IF pending_total > 0
    THEN (IF pending_total > remaining THEN OverBudget ELSE PlaceOrder)
    ELSE IF remaining = BUDGET THEN Eligible
    ELSE IF remaining = 0 THEN NotEligible
    ELSE Purchased

\* The purchases strictly later than six months before the last one.
InCycle_Strict(purchases, last_purchase) ==
    SelectSeq(purchases,
              LAMBDA r : TsLess(AddMonths(last_purchase, 0 - 6), r.Timestamp_dt))

\* The purchases of the current cycle: those not older than six months before the
\* last one.
InCycle(purchases, last_purchase) ==
    SelectSeq(purchases,
              LAMBDA r : TsGeq(r.Timestamp_dt, AddMonths(last_purchase, 0 - 6)))

\* group["Clients"].iloc[0]
ClientName_Last(group) == group[Len(group)].Clients

ClientName(group) == group[1].Clients

\* One turn of the loop over the groups: the summary row of one client.
SummaryRow(group, now) ==
    LET client_name   == ClientName(group)
        purchases     == SelectSeq(group, IsPurchase)
        pending       == SelectSeq(group, IsPending)
        never         == \/ purchases = <<>>
                         \/ \A i \in 1..Len(purchases) : purchases[i].Timestamp_dt = NaT
        last_purchase == IF never THEN NaT ELSE MaxTs(purchases)
        reset_date    == IF never THEN NaT ELSE AddMonths(last_purchase, 6)
        reset         == ~never /\ TsGeq(now, reset_date)
        purchased_cycle ==
            IF never \/ reset THEN 0
            ELSE SumSeq(Amounts(InCycle(purchases, last_purchase)))
        remaining     == IF never \/ reset THEN BUDGET
                         ELSE Max(BUDGET - purchased_cycle, 0)
        pending_total == SumSeq(Amounts(pending))
    IN  [Client             |-> client_name,
         Purchased_Total    |-> purchased_cycle,
         Pending_Total      |-> pending_total,
         Remaining_Balance  |-> remaining,
         Action_Status      |-> ActionStatus(pending_total, remaining),
         Last_Purchase_Date |-> last_purchase,
         Next_Reset_Date    |-> reset_date]

\* The keys of df.groupby("Client_key"), in sorted order.
GroupKeys(df) == { df[i].Client_key : i \in 1..Len(df) }

RECURSIVE SortedKeys(_)
SortedKeys(S) ==
    IF S = {} THEN <<>>
    ELSE LET k == CHOOSE x \in S : \A y \in S \ {x} : StrLess(x, y)
         IN  <<k>> \o SortedKeys(S \ {k})

\* The rows of one group, in the order of the frame.
Group(df, k) == SelectSeq(df, LAMBDA r : r.Client_key = k)

\* The position of the first row whose Client no row precedes.
FirstLeast(rows) ==
    CHOOSE i \in 1..Len(rows) :
        /\ \A j \in 1..Len(rows) : ~StrLess(rows[j].Client, rows[i].Client)
        /\ \A j \in 1..(i - 1) : rows[j].Client # rows[i].Client

Without(rows, i) == SubSeq(rows, 1, i - 1) \o SubSeq(rows, i + 1, Len(rows))

\* .sort_values("Client")
RECURSIVE SortByClient(_)
SortByClient(rows) ==
    IF rows = <<>> THEN <<>>
    ELSE <<rows[FirstLeast(rows)]>> \o SortByClient(Without(rows, FirstLeast(rows)))

\* summary_rows at the end of the loop.
SummaryRows(df_active, now) ==
    LET keys == SortedKeys(GroupKeys(df_active))
    IN  [i \in 1..Len(keys) |-> SummaryRow(Group(df_active, keys[i]), now)]

\* build_summary(df_all) run on the day `now`: pd.DataFrame([]) has no column
\* "Client", so sort_values raises KeyError when no row is active.
build_summary(df, now) ==
    LET summary_rows == SummaryRows(ActiveRows(df), now)
    IN  IF summary_rows = <<>>
        THEN [raised |-> TRUE, rows |-> <<>>]
        ELSE [raised |-> FALSE, rows |-> SortByClient(summary_rows)]

\* ------------------------------------------------------------------ KPIs
\* The purchased total of the active rows only.
total_purchased_ActiveOnly(df) == SumSeq(Amounts(SelectSeq(ActiveRows(df), IsPurchase)))

total_purchased_of(df) == SumSeq(Amounts(SelectSeq(df, IsPurchase)))

total_pending_of(df) == SumSeq(Amounts(SelectSeq(df, IsPending)))

clients_not_eligible_of(rows) ==
    Cardinality({ i \in 1..Len(rows) : rows[i].Action_Status = NotEligible })

\* ------------------------------------------------------------------ the script
VARIABLES
    values,                 \* what ws.get_all_values() returns
    pc,                     \* where the script is
    df_raw,
    df_all,
    today,                  \* the day build_summary read
    summary,
    error,                  \* the exception the script caught, if any
    total_purchased,
    total_pending,
    clients_not_eligible

vars ==
    << values, pc, df_raw, df_all, today, summary, error,
       total_purchased, total_pending, clients_not_eligible >>

NoError == [kind |-> "none", missing |-> <<>>, found |-> <<>>]

Init ==
    /\ IsSheet(values)
    /\ pc = "start"
    /\ df_raw = EmptyFrame
    /\ df_all = <<>>
    /\ today = NaT
    /\ summary = <<>>
    /\ error = NoError
    /\ total_purchased = 0
    /\ total_pending = 0
    /\ clients_not_eligible = 0

\* df_raw = load_data()
LoadData ==
    /\ pc = "start"
    /\ df_raw' = load_data(values)
    /\ pc' = "loaded"
    /\ UNCHANGED << values, df_all, today, summary, error,
                    total_purchased, total_pending, clients_not_eligible >>

\* if df_raw.empty: st.warning(...); st.stop()
NoData ==
    /\ pc = "loaded"
    /\ IsEmpty(df_raw)
    /\ pc' = "stopped"
    /\ UNCHANGED << values, df_raw, df_all, today, summary, error,
                    total_purchased, total_pending, clients_not_eligible >>

\* df_all = prepare_data(df_raw), the ValueError caught by the script.
PrepareData ==
    /\ pc = "loaded"
    /\ ~IsEmpty(df_raw)
    /\ IF Missing(df_raw) # <<>>
       THEN /\ error' = [kind |-> "ValueError", missing |-> Missing(df_raw),
                         found |-> df_raw.columns]
            /\ pc' = "failed"
            /\ UNCHANGED df_all
       ELSE /\ df_all' = prepare_data(df_raw)
            /\ pc' = "prepared"
            /\ UNCHANGED error
    /\ UNCHANGED << values, df_raw, today, summary,
                    total_purchased, total_pending, clients_not_eligible >>

\* summary = build_summary(df_all), the KeyError caught by the script.
BuildSummary ==
    /\ pc = "prepared"
    /\ \E now \in Todays :
        /\ today' = now
        /\ IF build_summary(df_all, now).raised
           THEN /\ error' = [kind |-> "KeyError", missing |-> <<>>, found |-> <<>>]
                /\ pc' = "failed"
                /\ UNCHANGED summary
           ELSE /\ summary' = build_summary(df_all, now).rows
                /\ pc' = "summarised"
                /\ UNCHANGED error
    /\ UNCHANGED << values, df_raw, df_all,
                    total_purchased, total_pending, clients_not_eligible >>

\* The KPI logic after the try block.
ComputeKPI ==
    /\ pc = "summarised"
    /\ total_purchased' = total_purchased_of(df_all)
    /\ total_pending' = total_pending_of(df_all)
    /\ clients_not_eligible' = clients_not_eligible_of(summary)
    /\ pc' = "done"
    /\ UNCHANGED << values, df_raw, df_all, today, summary, error >>

Next ==
    \/ LoadData
    \/ NoData
    \/ PrepareData
    \/ BuildSummary
    \/ ComputeKPI

Spec == Init /\ [][Next]_vars

\* ------------------------------------------------------------------ properties
\* The vocabulary of the properties, stated on the prepared records and the summary
\* rows and not through the operators of build_summary.
Summarised == pc \in {"summarised", "done"}

SummaryIdx == 1..Len(summary)

RecordIdx == 1..Len(df_all)

\* The client key of a summary row.
KeyOfRow(r) == Lower(r.Client)

RecordsOf(k) == { j \in RecordIdx : df_all[j].Client_key = k }

ActiveOf(k) == { j \in RecordsOf(k) : ~df_all[j].Inactive_bool }

PurchasesOf(k) == { j \in ActiveOf(k) : df_all[j].Purchased_bool }

PendingOf(k) == { j \in ActiveOf(k) : ~df_all[j].Purchased_bool }

RECURSIVE AmountOver(_)
AmountOver(J) ==
    IF J = {} THEN 0
    ELSE LET j == CHOOSE x \in J : TRUE
         IN  df_all[j].Amount + AmountOver(J \ {j})

\* a is earlier than b (neither is NaT).
DayNum(t) == (t.year * 12 + t.month) * 32 + t.day

Before(a, b) == DayNum(a) < DayNum(b) \/ (DayNum(a) = DayNum(b) /\ a.sec < b.sec)

LastDayOf(y, m) ==
    LET feb == IF (y % 4 = 0 /\ y % 100 # 0) \/ y % 400 = 0 THEN 29 ELSE 28
    IN  <<31, feb, 31, 30, 31, 30, 31, 31, 30, 31, 30, 31>>[m]

Clamp(y, m, d, sec) ==
    [year |-> y, month |-> m, day |-> IF d > LastDayOf(y, m) THEN LastDayOf(y, m) ELSE d,
     sec |-> sec]

\* Six calendar months after t: the same day of the month, or the last day of a
\* shorter month.
SixMonthsLater(t) ==
    IF t.month > 6 THEN Clamp(t.year + 1, t.month - 6, t.day, t.sec)
    ELSE Clamp(t.year, t.month + 6, t.day, t.sec)

SixMonthsEarlier(t) ==
    IF t.month > 6 THEN Clamp(t.year, t.month - 6, t.day, t.sec)
    ELSE Clamp(t.year - 1, t.month + 6, t.day, t.sec)

\* The latest timestamp that is not null among the active purchased records of k,
\* NaT when there is none.
LatestOf(k) ==
    LET T == { df_all[j].Timestamp_dt : j \in PurchasesOf(k) } \ {NaT}
    IN  IF T = {} THEN NaT ELSE CHOOSE t \in T : \A u \in T : ~Before(t, u)

\* The client's cycle is open: it has a dated purchase and today is before the reset.
CycleOpen(k) == LatestOf(k) # NaT /\ Before(today, SixMonthsLater(LatestOf(k)))

\* The client's cycle has elapsed.
CycleElapsed(k) == LatestOf(k) # NaT /\ ~Before(today, SixMonthsLater(LatestOf(k)))

\* C1: every summary row has 0 <= remaining_balance <= allowance_budget, whatever
\* the records (negative amounts included) and whatever today.
C1_RemainingInRange ==
    Summarised =>
        \A i \in SummaryIdx :
            /\ summary[i].Remaining_Balance >= 0
            /\ summary[i].Remaining_Balance <= BUDGET

\* The records with the inactive flag of record j replaced by flags[j].
WithInactive(df, flags) == [j \in 1..Len(df) |-> [df[j] EXCEPT !.Inactive_bool = flags[j]]]

\* C2: the two historical aggregates do not depend on the inactive flags: for every
\* prepared record set, the same records under any inactive flags (all inactive
\* included) give as totals the sums of amount over all the purchased (the not
\* purchased) records, and these are the totals the script shows.
C2_AggregatesIgnoreInactive ==
    LET purchased_sum == AmountOver({ j \in RecordIdx : df_all[j].Purchased_bool })
        pending_sum   == AmountOver({ j \in RecordIdx : ~df_all[j].Purchased_bool })
    IN  /\ \A flags \in [RecordIdx -> BOOLEAN] :
              /\ total_purchased_of(WithInactive(df_all, flags)) = purchased_sum
              /\ total_pending_of(WithInactive(df_all, flags)) = pending_sum
        /\ pc = "done" => (total_purchased = purchased_sum /\ total_pending = pending_sum)

\* C2's case: an inactive purchased record with an amount is in the total.
C2_Witness ==
    /\ pc = "done"
    /\ \E j \in RecordIdx :
          /\ df_all[j].Inactive_bool
          /\ df_all[j].Purchased_bool
          /\ df_all[j].Amount > 0
          /\ total_purchased >= df_all[j].Amount

\* The records with every inactive one rewritten: another amount, another date, the
\* other purchased flag, another spelling of the same name.
Rewritten(df) ==
    [j \in 1..Len(df) |->
        IF df[j].Inactive_bool
        THEN [df[j] EXCEPT !.Amount = 700,
                           !.Timestamp_dt = [year |-> 2024, month |-> 2, day |-> 1, sec |-> 0],
                           !.Purchased_bool = ~df[j].Purchased_bool,
                           !.Clients = df[j].Client_key]
        ELSE df[j]]

\* C3: the summary has exactly one row for each client key with an active record,
\* no row for a key whose records are all inactive, and no inactive record
\* contributes to a row: rewriting the inactive records changes no row.
C3_ActiveClientsOnly ==
    Summarised =>
        /\ \A i \in SummaryIdx : ActiveOf(KeyOfRow(summary[i])) # {}
        /\ \A j \in RecordIdx :
              Cardinality({ i \in SummaryIdx : KeyOfRow(summary[i]) = df_all[j].Client_key })
                  = IF ActiveOf(df_all[j].Client_key) # {} THEN 1 ELSE 0
        /\ build_summary(Rewritten(df_all), today).rows = summary

\* C3's case: a client with an inactive record before an active one, and a client
\* all of whose records are inactive is another case (C3_WitnessAllInactive).
C3_Witness ==
    /\ Summarised
    /\ \E j1, j2 \in RecordIdx :
          /\ j1 < j2
          /\ df_all[j1].Client_key = df_all[j2].Client_key
          /\ df_all[j1].Inactive_bool
          /\ ~df_all[j2].Inactive_bool
          /\ df_all[j1].Amount > 0
          /\ df_all[j1].Clients # df_all[j2].Clients

C3_WitnessAllInactive ==
    /\ Summarised
    /\ \E j \in RecordIdx : ActiveOf(df_all[j].Client_key) = {}

\* C4 as stated: a client with no purchased record is Eligible with the full
\* allowance, whatever its pending records.
C4_NoPurchaseAlwaysEligible ==
    Summarised =>
        \A i \in SummaryIdx :
            PurchasesOf(KeyOfRow(summary[i])) = {} =>
                /\ summary[i].Action_Status = Eligible
                /\ summary[i].Remaining_Balance = BUDGET

\* C4, amended: a client with no purchased record has the full allowance and
\* nothing purchased; it is Eligible exactly when its pending amounts do not sum to
\* more than zero, else Place Order, or Over Budget when the sum exceeds the budget.
C4_NoPurchaseFullAllowance ==
    Summarised =>
        \A i \in SummaryIdx :
            LET k == KeyOfRow(summary[i])
                p == AmountOver(PendingOf(k))
            IN  PurchasesOf(k) = {} =>
                    /\ summary[i].Remaining_Balance = BUDGET
                    /\ summary[i].Purchased_Total = 0
                    /\ summary[i].Action_Status =
                          IF p <= 0 THEN Eligible
                          ELSE IF p > BUDGET THEN OverBudget
                          ELSE PlaceOrder

\* C4's case: a client with pending records only, Eligible because they sum to zero
\* or less.
C4_Witness ==
    /\ Summarised
    /\ \E i \in SummaryIdx :
          /\ PurchasesOf(KeyOfRow(summary[i])) = {}
          /\ Cardinality(PendingOf(KeyOfRow(summary[i]))) = 2
          /\ summary[i].Action_Status = Eligible

\* The client's only purchased record costs exactly the budget and nothing is
\* pending.
OneFullPurchase(k) ==
    /\ Cardinality(PurchasesOf(k)) = 1
    /\ AmountOver(PurchasesOf(k)) = BUDGET
    /\ PendingOf(k) = {}

\* C5 as stated: one purchase of exactly the budget and nothing pending gives a
\* balance of zero and Not Eligible, whatever the purchase's timestamp and today.
C5_FullPurchaseAlwaysWaits ==
    Summarised =>
        \A i \in SummaryIdx :
            OneFullPurchase(KeyOfRow(summary[i])) =>
                /\ summary[i].Remaining_Balance = 0
                /\ summary[i].Action_Status = NotEligible

\* C5, amended: one purchase of exactly the budget and nothing pending gives a
\* balance of zero and Not Eligible when the purchase is dated and today is before
\* its date plus six months; with a null date, or from that day on, the balance is
\* the budget and the status Eligible.
C5_FullPurchaseWaitsInCycle ==
    Summarised =>
        \A i \in SummaryIdx :
            LET k == KeyOfRow(summary[i])
            IN  OneFullPurchase(k) =>
                    IF CycleOpen(k)
                    THEN /\ summary[i].Remaining_Balance = 0
                         /\ summary[i].Action_Status = NotEligible
                    ELSE /\ summary[i].Remaining_Balance = BUDGET
                         /\ summary[i].Action_Status = Eligible

\* C5's case: such a client in its open cycle.
C5_Witness ==
    /\ Summarised
    /\ \E i \in SummaryIdx :
          /\ OneFullPurchase(KeyOfRow(summary[i]))
          /\ CycleOpen(KeyOfRow(summary[i]))
          /\ summary[i].Action_Status = NotEligible

\* C6: a client whose latest dated purchase lies six calendar months or more before
\* today has nothing purchased in the cycle and the full allowance, whatever its
\* purchases; and the next reset is the last purchase plus six calendar months, the
\* day of the month kept or cut to the last day of a shorter month.
C6_ResetRule ==
    Summarised =>
        \A i \in SummaryIdx :
            LET k == KeyOfRow(summary[i])
                L == LatestOf(k)
            IN  /\ summary[i].Last_Purchase_Date = L
                /\ summary[i].Next_Reset_Date = (IF L = NaT THEN NaT ELSE SixMonthsLater(L))
                /\ CycleElapsed(k) =>
                      /\ summary[i].Purchased_Total = 0
                      /\ summary[i].Remaining_Balance = BUDGET

\* C6's case: purchases of a 31st of August, reset on the 29th of February that
\* follows, the cycle elapsed.
C6_Witness ==
    /\ Summarised
    /\ \E i \in SummaryIdx :
          /\ CycleElapsed(KeyOfRow(summary[i]))
          /\ summary[i].Last_Purchase_Date.day = 31
          /\ summary[i].Next_Reset_Date.day = 29
          /\ AmountOver(PurchasesOf(KeyOfRow(summary[i]))) > BUDGET
          /\ summary[i].Purchased_Total = 0

\* C7: the action status of every row is the one the five rules give, in their
\* order, for the row's pending total and remaining balance, the pending total
\* being the sum of all the client's pending amounts; with 10 purchased in an open
\* cycle, 20 pending is over budget and 10 pending is an order to place.
C7_StatusPrecedence ==
    Summarised =>
        \A i \in SummaryIdx :
            LET r == summary[i]
                p == r.Pending_Total
                b == r.Remaining_Balance
            IN  /\ p = AmountOver(PendingOf(KeyOfRow(r)))
                /\ r.Action_Status = OverBudget <=> (p > 0 /\ p > b)
                /\ r.Action_Status = PlaceOrder <=> (p > 0 /\ ~(p > b))
                /\ r.Action_Status = Eligible <=> (~(p > 0) /\ b = BUDGET)
                /\ r.Action_Status = NotEligible <=> (~(p > 0) /\ b # BUDGET /\ b = 0)
                /\ r.Action_Status = Purchased <=> (~(p > 0) /\ b # BUDGET /\ b # 0)
                /\ (CycleOpen(KeyOfRow(r)) /\ r.Purchased_Total = 1000 /\ p = 2000)
                      => r.Action_Status = OverBudget
                /\ (CycleOpen(KeyOfRow(r)) /\ r.Purchased_Total = 1000 /\ p = 1000)
                      => r.Action_Status = PlaceOrder

\* C7's case: 10 purchased in an open cycle and 20 pending.
C7_Witness ==
    /\ Summarised
    /\ \E i \in SummaryIdx :
          /\ CycleOpen(KeyOfRow(summary[i]))
          /\ summary[i].Purchased_Total = 1000
          /\ summary[i].Pending_Total = 2000
          /\ summary[i].Remaining_Balance = 1500
          /\ summary[i].Action_Status = OverBudget

\* The same with 10 pending.
C7_WitnessPlaceOrder ==
    /\ Summarised
    /\ \E i \in SummaryIdx :
          /\ CycleOpen(KeyOfRow(summary[i]))
          /\ summary[i].Purchased_Total = 1000
          /\ summary[i].Pending_Total = 1000
          /\ summary[i].Action_Status = PlaceOrder

\* The first of a set of record positions.
First(J) == CHOOSE j \in J : \A x \in J : j <= x

\* The sheet's rows grouped by name: the key of sheet row j.
RawKey(j) == Lower(normalize_name(Cell(df_raw, df_raw.rows[j], H_Clients)))

\* C8 as stated: the records whose names are equal after collapsing, trimming and
\* lower-casing make one summary row, named after the first of them in the input,
\* whatever the flags of that first record.
C8_FirstRecordNames ==
    Summarised =>
        \A j \in RecordIdx :
            ~df_all[j].Inactive_bool =>
                \E i \in SummaryIdx :
                    /\ KeyOfRow(summary[i]) = RawKey(j)
                    /\ \A i2 \in SummaryIdx : KeyOfRow(summary[i2]) = RawKey(j) => i2 = i
                    /\ summary[i].Client =
                          df_all[First({ x \in RecordIdx : RawKey(x) = RawKey(j) })].Clients

\* C8, amended: the same, the row named after the first of the client's records
\* that is not inactive.
C8_FirstActiveRecordNames ==
    Summarised =>
        \A j \in RecordIdx :
            ~df_all[j].Inactive_bool =>
                \E i \in SummaryIdx :
                    /\ KeyOfRow(summary[i]) = RawKey(j)
                    /\ \A i2 \in SummaryIdx : KeyOfRow(summary[i2]) = RawKey(j) => i2 = i
                    /\ summary[i].Client =
                          df_all[First({ x \in RecordIdx :
                                            RawKey(x) = RawKey(j) /\ ~df_all[x].Inactive_bool })].Clients
                    /\ summary[i].Client =
                          normalize_name(Cell(df_raw,
                              df_raw.rows[First({ x \in RecordIdx :
                                            RawKey(x) = RawKey(j) /\ ~df_all[x].Inactive_bool })],
                              H_Clients))

\* C8's case: two active records of one client under two spellings.
C8_Witness ==
    /\ Summarised
    /\ Len(summary) = 1
    /\ \E j1, j2 \in RecordIdx :
          /\ j1 < j2
          /\ ~df_all[j1].Inactive_bool
          /\ ~df_all[j2].Inactive_bool
          /\ RawKey(j1) = RawKey(j2)
          /\ df_raw.rows[j1] # df_raw.rows[j2]
          /\ df_all[j1].Clients # df_all[j2].Clients
          /\ summary[1].Client = df_all[j1].Clients

\* C9: the script fails only on a sheet that lacks a required column, and on every
\* such sheet; a sheet with the five columns gives a summary whatever its rows.
C9_OnlyMissingColumnsAbort ==
    /\ pc = "failed" <=> (pc \notin {"start", "loaded", "stopped"} /\ Missing(df_raw) # <<>>)
    /\ (pc = "failed" /\ Missing(df_raw) # <<>>) =>
          /\ error.kind = "ValueError"
          /\ error.found = df_raw.columns
          /\ \A c \in { required_cols[n] : n \in 1..Len(required_cols) } :
                (\E m \in 1..Len(error.missing) : error.missing[m] = c) <=> ~HasColumn(df_raw, c)

\* C10: in an open cycle the purchased total is the sum of the amounts of the
\* client's active purchased records dated no earlier than six calendar months
\* before the latest one (the older ones and the undated ones left out), and the
\* remaining balance is the budget minus that total, or zero when that is negative.
C10_OpenCycleAccounting ==
    Summarised =>
        \A i \in SummaryIdx :
            LET k == KeyOfRow(summary[i])
                L == LatestOf(k)
                W == { j \in PurchasesOf(k) :
                          /\ df_all[j].Timestamp_dt # NaT
                          /\ ~Before(df_all[j].Timestamp_dt, SixMonthsEarlier(L)) }
            IN  CycleOpen(k) =>
                    /\ summary[i].Purchased_Total = AmountOver(W)
                    /\ summary[i].Remaining_Balance =
                          IF BUDGET - AmountOver(W) < 0 THEN 0 ELSE BUDGET - AmountOver(W)

\* C10's case: an open cycle with two purchases in the window, the earlier one on
\* the very first instant of the window.
C10_Witness ==
    /\ Summarised
    /\ \E i \in SummaryIdx :
          LET k == KeyOfRow(summary[i])
          IN  /\ CycleOpen(k)
              /\ \E j1, j2 \in PurchasesOf(k) :
                    /\ df_all[j1].Timestamp_dt = SixMonthsEarlier(df_all[j2].Timestamp_dt)
                    /\ df_all[j1].Amount = 1000
                    /\ df_all[j2].Amount = 2000
              /\ summary[i].Purchased_Total = 3000
              /\ summary[i].Remaining_Balance = 0

\* Other cases of C10: an older purchase, and an undated one, left out of the total.
C10_WitnessOlder ==
    /\ Summarised
    /\ \E i \in SummaryIdx :
          LET k == KeyOfRow(summary[i])
          IN  /\ CycleOpen(k)
              /\ \E j \in PurchasesOf(k) :
                    /\ df_all[j].Timestamp_dt # NaT
                    /\ Before(df_all[j].Timestamp_dt, SixMonthsEarlier(LatestOf(k)))
                    /\ df_all[j].Amount > 0
              /\ summary[i].Purchased_Total < AmountOver(PurchasesOf(k))

C10_WitnessUndated ==
    /\ Summarised
    /\ \E i \in SummaryIdx :
          LET k == KeyOfRow(summary[i])
          IN  /\ CycleOpen(k)
              /\ \E j \in PurchasesOf(k) : df_all[j].Timestamp_dt = NaT /\ df_all[j].Amount > 0
              /\ summary[i].Purchased_Total < AmountOver(PurchasesOf(k))

====
